---- MODULE Spec2Model ----
(***************************************************************************)
(* A model of port_list_tool.py: discovery of docker-compose.yml files     *)
(* under a directory tree, extraction of the declared host ports, the      *)
(* snapshot of the running containers' ports, the unused-port report and   *)
(* the interactive start/stop/restart prompt.                              *)
(*                                                                         *)
(* Python strings are sequences of one-character strings, so that split,   *)
(* strip, lower, int, count and re.search are computed and not assumed.    *)
(***************************************************************************)
EXTENDS Integers, Sequences, FiniteSets, TLC

VARIABLES
    root_path,              \* argument of list_ports / find_docker_compose_files
    max_depth,              \* argument
    exclude_patterns,       \* argument: a list of regular expressions
    compose_dirs,           \* file system: directories holding a docker-compose.yml
    unreadable,             \* file system: directories whose listing fails
    contents,               \* file system: path of a compose file -> its document
    pc,                     \* position of the run inside list_ports
    walk_stack,             \* os.walk: directories still to be visited, next first
    docker_compose_files,   \* the list find_docker_compose_files builds
    read_i,                 \* get_ports_from_docker_compose: files consumed so far
    compose_ports,          \* file -> service -> declared host ports
    running_ports,          \* container name -> host ports, or NoValue
    unused_report,          \* file -> service -> unused ports, or NoValue
    choice,                 \* prompt_user_action: the selection as typed
    file_path,              \* prompt_user_action: the file the selection resolved to
    bulk_i,                 \* prompt_user_action: files the bulk loop has consumed
    runtime,                \* environment: whether the container runtime answers
    action,                 \* prompt_user_action: the action after strip().lower()
    requests,               \* commands handed to docker-compose in this loop turn
    printed                 \* what the last step wrote to stdout

vars == <<root_path, max_depth, exclude_patterns, compose_dirs, unreadable,
          contents, pc, walk_stack, docker_compose_files, read_i,
          compose_ports, running_ports, unused_report, choice, file_path,
          bulk_i, runtime, action, requests, printed>>

NoValue == [none |-> TRUE]

\* a line on stdout: what it reports, the file it names (<<>> for none) and
\* the rest of it
LineOf(msg, file, detail) == [msg |-> msg, file |-> file, detail |-> detail]
Line(msg, file) == LineOf(msg, file, <<>>)

(***************************************************************************)
(* Strings                                                                 *)
(***************************************************************************)
Sep == "/"

RECURSIVE Count(_, _)
\* str.count(c) for a one-character c
Count(s, c) ==
    IF s = <<>> THEN 0
    ELSE (IF Head(s) = c THEN 1 ELSE 0) + Count(Tail(s), c)

\* s[n:]
DropFirst(s, n) == IF n >= Len(s) THEN <<>> ELSE SubSeq(s, n + 1, Len(s))

\* lit occurs in s at position i (1-based)
OccursAt(lit, s, i) ==
    /\ i + Len(lit) - 1 <= Len(s)
    /\ \A k \in 1..Len(lit) : s[i + k - 1] = lit[k]

\* re.search(pattern, s) for a pattern that is a literal, optionally followed by $
ReSearch(pattern, s) ==
    \E i \in 1..(Len(s) + 1) :
        /\ OccursAt(pattern.lit, s, i)
        /\ pattern.atEnd => i + Len(pattern.lit) - 1 = Len(s)

\* os.path.join(a, b) for a relative b
PathJoin(a, b) ==
    IF a = <<>> \/ a[Len(a)] = Sep THEN a \o b ELSE a \o <<Sep>> \o b

(***************************************************************************)
(* The file system: a fixed tree of directories; a directory is the list   *)
(* of names leading to it from the root.                                   *)
(***************************************************************************)
NameA == <<"a">>
NameB == <<"b">>
NameBk == <<"a", "_", "b", "k">>
\* "docker-compose.yml"
ComposeName == <<"d", "o", "c", "k", "e", "r", "-", "c", "o", "m", "p", "o", "s", "e",
                 ".", "y", "m", "l">>

Dirs == { <<>>, <<NameA>>, <<NameA, NameB>>, <<NameA, NameB, NameA>>,
          <<NameBk>>, <<NameBk, NameB>> }

\* the subdirectories scandir lists for d, in listing order
Children(d) ==
    IF d = <<>> THEN << <<NameA>>, <<NameBk>> >>
    ELSE IF d = <<NameA>> THEN << <<NameA, NameB>> >>
    ELSE IF d = <<NameA, NameB>> THEN << <<NameA, NameB, NameA>> >>
    ELSE IF d = <<NameBk>> THEN << <<NameBk, NameB>> >>
    ELSE <<>>

RECURSIVE DirPath(_, _)
\* the dirpath os.walk yields for directory d: top for the root, else
\* os.path.join(parent's dirpath, name)
DirPath(root, d) ==
    IF d = <<>> THEN root
    ELSE PathJoin(DirPath(root, SubSeq(d, 1, Len(d) - 1)), d[Len(d)])

\* d is anc or lies in anc's subtree
IsUnder(d, anc) == Len(anc) <= Len(d) /\ SubSeq(d, 1, Len(anc)) = anc

(***************************************************************************)
(* find_docker_compose_files                                               *)
(***************************************************************************)
\* dirpath[len(root_path):].count(os.sep)
Depth(root, dirpath) == Count(DropFirst(dirpath, Len(root)), Sep)

\* the depth test of the loop body
WithinDepth(root, dirpath, limit) == Depth(root, dirpath) < limit

\* any(re.search(pattern, dirpath) for pattern in exclude_patterns)
Excluded(patterns, dirpath) ==
    \E k \in 1..Len(patterns) : ReSearch(patterns[k], dirpath)

\* the loop body with the excluded branch leaving dirnames as they are
WalkBodyNoPrune(d, root, limit, patterns, hasFile) ==
    LET dirpath == DirPath(root, d) IN
    IF WithinDepth(root, dirpath, limit)
    THEN IF Excluded(patterns, dirpath)
         THEN [dirnames |-> Children(d), found |-> <<>>]
         ELSE [dirnames |-> Children(d),
               found |-> IF hasFile THEN <<PathJoin(dirpath, ComposeName)>>
                         ELSE <<>>]
    ELSE [dirnames |-> <<>>, found |-> <<>>]

\* one turn of the for loop over os.walk: what is left of dirnames, and the
\* path appended to docker_compose_files (if any)
WalkBody(d, root, limit, patterns, hasFile) ==
    LET dirpath == DirPath(root, d) IN
    IF WithinDepth(root, dirpath, limit)
    THEN IF Excluded(patterns, dirpath)
         THEN [dirnames |-> <<>>, found |-> <<>>]
         ELSE [dirnames |-> Children(d),
               found |-> IF hasFile THEN <<PathJoin(dirpath, ComposeName)>>
                         ELSE <<>>]
    ELSE [dirnames |-> <<>>, found |-> <<>>]

\* os.walk visits the next directory and the loop body runs on it; a
\* directory whose listing fails is not yielded (onerror is None)
WalkStep ==
    /\ pc = "walk"
    /\ walk_stack # <<>>
    /\ LET d == Head(walk_stack) IN
       IF d \in unreadable
       THEN /\ walk_stack' = Tail(walk_stack)
            /\ UNCHANGED docker_compose_files
       ELSE LET r == WalkBody(d, root_path, max_depth, exclude_patterns,
                              d \in compose_dirs) IN
            /\ walk_stack' = r.dirnames \o Tail(walk_stack)
            /\ docker_compose_files' = docker_compose_files \o r.found
    /\ printed' = {}
    /\ UNCHANGED <<root_path, max_depth, exclude_patterns, compose_dirs,
                   unreadable, contents, pc, read_i, compose_ports,
                   running_ports, unused_report, choice, file_path, bulk_i,
                   runtime, action, requests>>

\* find_docker_compose_files returns; list_ports stops when the list is empty
FindReturn ==
    /\ pc = "walk"
    /\ walk_stack = <<>>
    /\ IF docker_compose_files = <<>>
       THEN pc' = "done" /\ printed' = {Line("not_found", <<>>)}
       ELSE pc' = "read" /\ printed' = {}
    /\ UNCHANGED <<root_path, max_depth, exclude_patterns, compose_dirs,
                   unreadable, contents, walk_stack, docker_compose_files,
                   read_i, compose_ports, running_ports, unused_report,
                   choice, file_path, bulk_i, runtime, action, requests>>

(***************************************************************************)
(* Compose documents.  A document is what open + yaml.safe_load make of a  *)
(* file: kind "unreadable" (open fails), "malformed" (the parser fails),   *)
(* "null" (an empty document, None) or "map".  A map has its services key  *)
(* "absent", "null" or "map"; a service is [name, data, has_ports, ports]  *)
(* with data "null" for a service without a body; a port entry is          *)
(* [int, text]: a YAML integer (int = TRUE) or a string.                   *)
(***************************************************************************)
HOST == 0
CONTAINER == 1

Str(text) == [int |-> FALSE, text |-> text]
Num(text) == [int |-> TRUE, text |-> text]

Service(name, ports) ==
    [name |-> name, data |-> "map", has_ports |-> TRUE, ports |-> ports]
ServiceNoPorts(name) ==
    [name |-> name, data |-> "map", has_ports |-> FALSE, ports |-> <<>>]
ServiceNull(name) ==
    [name |-> name, data |-> "null", has_ports |-> FALSE, ports |-> <<>>]

DocFail(kind) == [kind |-> kind, services_key |-> "absent", services |-> <<>>]
DocNoServices == [kind |-> "map", services_key |-> "absent", services |-> <<>>]
DocServicesNull == [kind |-> "map", services_key |-> "null", services |-> <<>>]
Doc(services) == [kind |-> "map", services_key |-> "map", services |-> services]

RECURSIVE Split(_, _)
\* str.split(c): the segments of s between the occurrences of c
Split(s, c) ==
    IF \A k \in 1..Len(s) : s[k] # c THEN <<s>>
    ELSE LET k == CHOOSE j \in 1..Len(s) :
                      s[j] = c /\ \A m \in 1..(j - 1) : s[m] # c
         IN <<SubSeq(s, 1, k - 1)>> \o Split(DropFirst(s, k), c)

EmptyMap == [x \in {} |-> <<>>]

\* dict[key] = value
Put(map, key, value) ==
    [k \in DOMAIN map \cup {key} |-> IF k = key THEN value ELSE map[k]]

\* [port.split(":")[PortIndex.HOST.value] for port in ports]; an integer entry
\* has no split
HostPorts(ports) ==
    [raised |-> \E k \in 1..Len(ports) : ports[k].int,
     list |-> [k \in 1..Len(ports) |->
                  IF ports[k].int THEN <<>>
                  ELSE Split(ports[k].text, ":")[HOST + 1]]]

RECURSIVE ServicePorts(_, _)
\* the loop over services.items(), from the file_ports built so far
ServicePorts(services, file_ports) ==
    IF services = <<>> THEN [raised |-> FALSE, file_ports |-> file_ports]
    ELSE LET sv == Head(services) IN
         IF sv.data = "null" THEN [raised |-> TRUE, file_ports |-> file_ports]
         ELSE IF ~sv.has_ports THEN ServicePorts(Tail(services), file_ports)
         ELSE LET hp == HostPorts(sv.ports) IN
              IF hp.raised THEN [raised |-> TRUE, file_ports |-> file_ports]
              ELSE ServicePorts(Tail(services), Put(file_ports, sv.name, hp.list))

\* the try block for one file: whether it raised, and file_ports
FilePorts(doc) ==
    IF doc.kind # "map" \/ doc.services_key = "null"
    THEN [raised |-> TRUE, file_ports |-> EmptyMap]
    ELSE ServicePorts(doc.services, EmptyMap)

\* the try block storing file_ports whatever happened
ReadOneKeepPartial(ports, file, doc) ==
    LET r == FilePorts(doc) IN
    [ports |-> IF DOMAIN r.file_ports # {} THEN Put(ports, file, r.file_ports)
               ELSE ports,
     printed |-> IF r.raised THEN {Line("read_error", file)} ELSE {}]

\* the except clause without its print
ReadOneSilent(ports, file, doc) ==
    LET r == FilePorts(doc) IN
    [ports |-> IF ~r.raised /\ DOMAIN r.file_ports # {}
               THEN Put(ports, file, r.file_ports)
               ELSE ports,
     printed |-> {}]

\* one turn of the loop over files: try/except around the whole of it
ReadOne(ports, file, doc) ==
    LET r == FilePorts(doc) IN
    [ports |-> IF ~r.raised /\ DOMAIN r.file_ports # {}
               THEN Put(ports, file, r.file_ports)
               ELSE ports,
     printed |-> IF r.raised THEN {Line("read_error", file)} ELSE {}]

ReadFile ==
    /\ pc = "read"
    /\ read_i < Len(docker_compose_files)
    /\ LET file == docker_compose_files[read_i + 1]
           r == ReadOne(compose_ports, file, contents[file]) IN
       /\ compose_ports' = r.ports
       /\ printed' = r.printed
    /\ read_i' = read_i + 1
    /\ UNCHANGED <<root_path, max_depth, exclude_patterns, compose_dirs,
                   unreadable, contents, pc, walk_stack, docker_compose_files,
                   running_ports, unused_report, choice, file_path, bulk_i,
                   runtime, action, requests>>

\* get_ports_from_docker_compose returns
ReadReturn ==
    /\ pc = "read"
    /\ read_i = Len(docker_compose_files)
    /\ pc' = "inspect"
    /\ printed' = {}
    /\ UNCHANGED <<root_path, max_depth, exclude_patterns, compose_dirs,
                   unreadable, contents, walk_stack, docker_compose_files,
                   read_i, compose_ports, running_ports, unused_report,
                   choice, file_path, bulk_i, runtime, action, requests>>

(***************************************************************************)
(* get_ports_from_running_containers.  A container is [name, Ports]; Ports *)
(* lists the values of attrs["NetworkSettings"]["Ports"], each             *)
(* [none, bindings]: None, or a list of bindings [has, HostPort] (has:     *)
(* the binding holds the key "HostPort").                                  *)
(***************************************************************************)
NoBinding == [none |-> TRUE, bindings |-> <<>>]
Bound(ports) ==
    [none |-> FALSE,
     bindings |-> [k \in 1..Len(ports) |-> [has |-> TRUE, HostPort |-> ports[k]]]]
BoundNoHostPort ==
    [none |-> FALSE, bindings |-> << [has |-> FALSE, HostPort |-> <<>>] >>]

RECURSIVE BindingPorts(_)
\* [port["HostPort"] for port in port_data if "HostPort" in port]
BindingPorts(bindings) ==
    IF bindings = <<>> THEN <<>>
    ELSE (IF Head(bindings).has THEN <<Head(bindings).HostPort>> ELSE <<>>)
         \o BindingPorts(Tail(bindings))

RECURSIVE ContainerPorts(_)
\* the loop over the values of Ports, extending container_ports
ContainerPorts(port_datas) ==
    IF port_datas = <<>> THEN <<>>
    ELSE (IF Head(port_datas).none \/ Head(port_datas).bindings = <<>> THEN <<>>
          ELSE BindingPorts(Head(port_datas).bindings))
         \o ContainerPorts(Tail(port_datas))

RECURSIVE CollectPorts(_, _)
\* the loop over client.containers.list()
CollectPorts(containers, acc) ==
    IF containers = <<>> THEN acc
    ELSE CollectPorts(Tail(containers),
                      Put(acc, Head(containers).name,
                          ContainerPorts(Head(containers).Ports)))

\* the runtime error caught and an empty map returned
RunningPortsSwallow(rt, containers) ==
    IF rt = "down" THEN [raised |-> FALSE, running_ports |-> EmptyMap]
    ELSE [raised |-> FALSE, running_ports |-> CollectPorts(containers, EmptyMap)]

\* docker.from_env() / containers.list() raise when the runtime does not
\* answer; nothing catches it
RunningPorts(rt, containers) ==
    IF rt = "down" THEN [raised |-> TRUE, running_ports |-> NoValue]
    ELSE [raised |-> FALSE, running_ports |-> CollectPorts(containers, EmptyMap)]

P80 == <<"8", "0">>
P90 == <<"9", "0">>
P070 == <<"0", "7", "0">>
P70 == <<"7", "0">>

\* what the runtime may list at the moment of the call
Snapshots ==
    { <<>>,
      << [name |-> "c1", Ports |-> <<Bound(<<P80>>)>>] >>,
      << [name |-> "c1", Ports |-> <<NoBinding, Bound(<<P90, P90>>)>>],
         [name |-> "c2", Ports |-> <<>>] >>,
      << [name |-> "c1", Ports |-> <<Bound(<<P70>>), BoundNoHostPort>>],
         [name |-> "c2", Ports |-> <<Bound(<<P80>>), Bound(<<P90>>)>>] >> }

Inspect ==
    /\ pc = "inspect"
    /\ \E containers \in Snapshots :
         LET r == RunningPorts(runtime, containers) IN
         /\ running_ports' = r.running_ports
         /\ pc' = IF r.raised THEN "raised" ELSE "report"
    /\ printed' = {}
    /\ UNCHANGED <<root_path, max_depth, exclude_patterns, compose_dirs,
                   unreadable, contents, walk_stack, docker_compose_files,
                   read_i, compose_ports, unused_report, choice, file_path,
                   bulk_i, runtime, action, requests>>

(***************************************************************************)
(* list_ports: the three sections of the report                            *)
(***************************************************************************)
Range(f) == { f[x] : x \in DOMAIN f }

\* [p for c in running_ports.values() for p in c], as far as "in" sees it
BoundPorts(running) == UNION { Range(running[c]) : c \in DOMAIN running }

\* the comprehension with its test turned round
UnusedPortsInverted(ports, running) ==
    SelectSeq(ports, LAMBDA port : port \in BoundPorts(running))

\* [port for port in ports if port not in [...]]
UnusedPorts(ports, running) ==
    SelectSeq(ports, LAMBDA port : port \notin BoundPorts(running))

\* the (file, service) pairs the two loops over compose_ports go through
Pairs(ports) == UNION { { <<f, sv>> : sv \in DOMAIN ports[f] } : f \in DOMAIN ports }

\* the lines of the three sections (the headings left out)
ReportLines(ports, running, unused) ==
    { LineOf("declared", e[1], <<e[2], ports[e[1]][e[2]]>>) : e \in Pairs(ports) }
    \cup { LineOf("unused", e[1], <<e[2], unused[e[1]][e[2]]>>) :
               e \in { x \in Pairs(ports) : unused[x[1]][x[2]] # <<>> } }
    \cup (IF DOMAIN running # {}
          THEN { LineOf("running", <<>>, <<c, running[c]>>) : c \in DOMAIN running }
          ELSE { Line("running_none", <<>>) })

Report ==
    /\ pc = "report"
    /\ LET unused == [f \in DOMAIN compose_ports |->
                         [sv \in DOMAIN compose_ports[f] |->
                             UnusedPorts(compose_ports[f][sv], running_ports)]]
       IN /\ unused_report' = unused
          /\ printed' = ReportLines(compose_ports, running_ports, unused)
    /\ pc' = "select"
    /\ UNCHANGED <<root_path, max_depth, exclude_patterns, compose_dirs,
                   unreadable, contents, walk_stack, docker_compose_files,
                   read_i, compose_ports, running_ports, choice, file_path,
                   bulk_i, runtime, action, requests>>

(***************************************************************************)
(* prompt_user_action                                                      *)
(***************************************************************************)
UpperCase == <<"A", "B", "C", "D", "E", "F", "G", "H", "I", "J", "K", "L", "M",
               "N", "O", "P", "Q", "R", "S", "T", "U", "V", "W", "X", "Y", "Z">>
LowerCase == <<"a", "b", "c", "d", "e", "f", "g", "h", "i", "j", "k", "l", "m",
               "n", "o", "p", "q", "r", "s", "t", "u", "v", "w", "x", "y", "z">>
Digits == <<"0", "1", "2", "3", "4", "5", "6", "7", "8", "9">>

\* str.lower()
Lower(s) ==
    [k \in 1..Len(s) |->
        IF \E i \in 1..26 : UpperCase[i] = s[k]
        THEN LowerCase[CHOOSE i \in 1..26 : UpperCase[i] = s[k]]
        ELSE s[k]]

RECURSIVE LStrip(_)
LStrip(s) == IF s # <<>> /\ Head(s) = " " THEN LStrip(Tail(s)) ELSE s

RECURSIVE RStrip(_)
RStrip(s) ==
    IF s # <<>> /\ s[Len(s)] = " " THEN RStrip(SubSeq(s, 1, Len(s) - 1)) ELSE s

\* str.strip()
Strip(s) == RStrip(LStrip(s))

IsDigit(c) == \E i \in 1..10 : Digits[i] = c
DigitVal(c) == (CHOOSE i \in 1..10 : Digits[i] = c) - 1

RECURSIVE Decimal(_)
\* the value of a string of digits
Decimal(s) ==
    IF s = <<>> THEN 0
    ELSE 10 * Decimal(SubSeq(s, 1, Len(s) - 1)) + DigitVal(s[Len(s)])

\* int(s): an optional sign, then one digit or more; anything else is a
\* ValueError
ParseInt(s) ==
    LET signed == s # <<>> /\ Head(s) \in {"-", "+"}
        digits == IF signed THEN Tail(s) ELSE s
    IN IF digits = <<>> \/ \E k \in 1..Len(digits) : ~IsDigit(digits[k])
       THEN [raised |-> TRUE, value |-> 0]
       ELSE [raised |-> FALSE,
             value |-> IF signed /\ Head(s) = "-" THEN 0 - Decimal(digits)
                       ELSE Decimal(digits)]

\* list[i] for a Python index i: a negative i counts from the end; outside
\* -len..len-1 it is an IndexError
Subscript(list, i) ==
    LET j == IF i < 0 THEN i + Len(list) ELSE i IN
    IF j < 0 \/ j >= Len(list) THEN [raised |-> TRUE, item |-> <<>>]
    ELSE [raised |-> FALSE, item |-> list[j + 1]]

\* choice = int(choice); file_path = docker_compose_files[choice - 1], inside
\* try ... except (ValueError, IndexError)
ResolveChoice(files, c) ==
    LET n == ParseInt(c) IN
    IF n.raised THEN [raised |-> TRUE, item |-> <<>>]
    ELSE Subscript(files, n.value - 1)

\* the quit test taking "0" alone
IsQuitZeroOnly(c) == c = <<"0">>

\* choice in {"0", ""}
IsQuit(c) == c \in { <<"0">>, <<>> }

\* choice.lower() == "a"
IsBulk(c) == Lower(c) = <<"a">>

Start == <<"s", "t", "a", "r", "t">>
Stop == <<"s", "t", "o", "p">>
Restart == <<"r", "e", "s", "t", "a", "r", "t">>

\* the action test letting every non-empty action through
IsActionNonEmpty(a) == a # <<>>

\* action in ["start", "stop", "restart"]
IsAction(a) == a \in {Start, Stop, Restart}

\* execute_docker_compose_command without its except clause
ExecuteNoExcept(file, command, ok) ==
    [raised |-> ~ok,
     printed |-> IF ok THEN {LineOf("exec_ok", file, command)} ELSE {}]

\* execute_docker_compose_command: subprocess.run(..., check=True) inside
\* try ... except CalledProcessError; ok is the command's exit status being 0
Execute(file, command, ok) ==
    [raised |-> FALSE,
     printed |-> {LineOf(IF ok THEN "exec_ok" ELSE "exec_error", file, command)}]

Request(file, command, ok) == [file |-> file, command |-> command, ok |-> ok]

\* what the operator may type at the selection prompt
ChoiceInputs ==
    { <<>>, <<" ">>, <<"0">>, <<"a">>, <<"A">>, <<"1">>, <<" ", "2">>, <<"3">>,
      <<"4">>, <<"0", "1">>, <<"0", "0">>, <<"-", "1">>, <<"-", "3">>,
      <<"-", "5">>, <<"+", "2">>, <<"x">>, <<"1", "a">>, <<"-">> }

\* what the operator may type at the action prompt
ActionInputs ==
    { Start, Stop, Restart, <<" ", "S", "t", "o", "p", " ">>,
      <<"s", "t", "a", "t", "u", "s">>, <<"u", "p">>, <<>> }

\* the top of the while loop up to the branch taken on choice
Select ==
    /\ pc = "select"
    /\ \E typed \in ChoiceInputs :
         LET c == Strip(typed)
             r == ResolveChoice(docker_compose_files, c)
         IN /\ choice' = c
            /\ IF IsQuit(c)
               THEN pc' = "exited" /\ printed' = {} /\ UNCHANGED file_path
               ELSE IF IsBulk(c)
               THEN pc' = "bulk_action" /\ printed' = {} /\ UNCHANGED file_path
               ELSE IF r.raised
               THEN /\ pc' = "select"
                    /\ printed' = {Line("invalid_choice", <<>>)}
                    /\ UNCHANGED file_path
               ELSE pc' = "file_action" /\ printed' = {} /\ file_path' = r.item
    /\ requests' = <<>>
    /\ UNCHANGED <<root_path, max_depth, exclude_patterns, compose_dirs,
                   unreadable, contents, walk_stack, docker_compose_files,
                   read_i, compose_ports, running_ports, unused_report,
                   bulk_i, runtime, action>>

\* the action prompt of the single-file branch and what follows it
FileAction ==
    /\ pc = "file_action"
    /\ \E typed \in ActionInputs, ok \in BOOLEAN :
         LET a == Lower(Strip(typed))
             e == Execute(file_path, a, ok)
         IN /\ action' = a
            /\ IF IsAction(a)
               THEN /\ requests' = Append(requests, Request(file_path, a, ok))
                    /\ printed' = e.printed
                    /\ pc' = IF e.raised THEN "raised" ELSE "select"
               ELSE /\ printed' = {Line("invalid_action", <<>>)}
                    /\ pc' = "select"
                    /\ UNCHANGED requests
    /\ UNCHANGED <<root_path, max_depth, exclude_patterns, compose_dirs,
                   unreadable, contents, walk_stack, docker_compose_files,
                   read_i, compose_ports, running_ports, unused_report,
                   choice, file_path, bulk_i, runtime>>

\* the action prompt of the bulk branch
BulkAction ==
    /\ pc = "bulk_action"
    /\ \E typed \in ActionInputs :
         LET a == Lower(Strip(typed)) IN
         /\ action' = a
         /\ IF IsAction(a)
            THEN /\ printed' = {}
                 /\ pc' = IF docker_compose_files = <<>> THEN "select"
                          ELSE "bulk_run"
            ELSE /\ printed' = {Line("invalid_action", <<>>)}
                 /\ pc' = "select"
    /\ bulk_i' = 0
    /\ UNCHANGED <<root_path, max_depth, exclude_patterns, compose_dirs,
                   unreadable, contents, walk_stack, docker_compose_files,
                   read_i, compose_ports, running_ports, unused_report,
                   choice, file_path, runtime, requests>>

\* one turn of the bulk loop: the command runs on the next file
BulkStep ==
    /\ pc = "bulk_run"
    /\ \E ok \in BOOLEAN :
         LET file == docker_compose_files[bulk_i + 1]
             e == Execute(file, action, ok)
         IN /\ file_path' = file
            /\ requests' = Append(requests, Request(file, action, ok))
            /\ printed' = e.printed
            /\ pc' = IF e.raised THEN "raised"
                     ELSE IF bulk_i + 1 = Len(docker_compose_files) THEN "select"
                     ELSE "bulk_run"
    /\ bulk_i' = bulk_i + 1
    /\ UNCHANGED <<root_path, max_depth, exclude_patterns, compose_dirs,
                   unreadable, contents, walk_stack, docker_compose_files,
                   read_i, compose_ports, running_ports, unused_report,
                   choice, runtime, action>>

(***************************************************************************)
(* Inputs                                                                  *)
(***************************************************************************)
MaxDepthArg == 3

PatBk == [lit |-> <<"_", "b", "k">>, atEnd |-> FALSE]
PatOld == [lit |-> <<"_", "o", "l", "d">>, atEnd |-> FALSE]
PatBkEnd == [lit |-> <<"_", "b", "k">>, atEnd |-> TRUE]
PatSlashBEnd == [lit |-> <<"/", "b">>, atEnd |-> TRUE]

ExcludeLists == { <<>>, <<PatBk, PatOld>>, <<PatBkEnd>>, <<PatSlashBEnd>> }

Roots == { <<".">>, <<".", "/">> }

ComposePath(root, d) == PathJoin(DirPath(root, d), ComposeName)

T80to80 == <<"8", "0", ":", "8", "0">>
T80to81 == <<"8", "0", ":", "8", "1">>
T070to7 == <<"0", "7", "0", ":", "7">>
T90tcp == <<"9", "0", ":", "9", "/", "t", "c", "p">>
T53 == <<"5", "3">>

Docs ==
    { DocFail("unreadable"), DocFail("malformed"), DocFail("null"),
      DocNoServices, DocServicesNull,
      Doc(<<ServiceNoPorts("web")>>),
      Doc(<<Service("web", <<Str(T80to80), Str(P90)>>)>>),
      Doc(<<Service("web", <<Str(T80to80), Str(T80to81), Str(T070to7)>>),
            ServiceNoPorts("db")>>),
      Doc(<<Service("web", <<Str(P90)>>), Service("db", <<Num(T53)>>)>>),
      Doc(<<Service("web", <<Str(T90tcp)>>), ServiceNull("db")>>),
      Doc(<<Service("web", <<>>), Service("db", <<Str(P90), Str(T80to80), Str(P90)>>)>>) }

\* the state of a run before list_ports has done anything but start the walk
Fresh ==
    /\ pc = "walk"
    /\ walk_stack = << <<>> >>
    /\ docker_compose_files = <<>>
    /\ read_i = 0
    /\ compose_ports = EmptyMap
    /\ running_ports = NoValue
    /\ unused_report = NoValue
    /\ choice = <<>>
    /\ file_path = <<>>
    /\ bulk_i = 0
    /\ action = <<>>
    /\ requests = <<>>
    /\ printed = {}

(***************************************************************************)
(* The scan alone, over every placement of compose files in the tree       *)
(***************************************************************************)
InitScan ==
    /\ root_path \in Roots
    /\ max_depth \in 0..MaxDepthArg
    /\ exclude_patterns \in ExcludeLists
    /\ compose_dirs \in SUBSET Dirs
    /\ unreadable \in {{}} \cup { {d} : d \in Dirs }
    /\ contents = [f \in { ComposePath(root_path, d) : d \in compose_dirs } |->
                      DocNoServices]
    /\ runtime = "up"
    /\ Fresh

NextScan == WalkStep \/ FindReturn

SpecScan == InitScan /\ [][NextScan]_vars

(***************************************************************************)
(* Reading, inspecting and reporting, from the end of a scan that found    *)
(* three files                                                             *)
(***************************************************************************)
ThreeDirs == << <<>>, <<NameA>>, <<NameBk>> >>

InitPorts ==
    /\ root_path = <<".">>
    /\ max_depth = 2
    /\ exclude_patterns = <<>>
    /\ compose_dirs = Range(ThreeDirs)
    /\ unreadable = {}
    /\ contents \in [{ ComposePath(root_path, d) : d \in compose_dirs } -> Docs]
    /\ runtime \in {"up", "down"}
    /\ pc = "read"
    /\ walk_stack = <<>>
    /\ docker_compose_files = [k \in 1..3 |-> ComposePath(root_path, ThreeDirs[k])]
    /\ read_i = 0
    /\ compose_ports = EmptyMap
    /\ running_ports = NoValue
    /\ unused_report = NoValue
    /\ choice = <<>>
    /\ file_path = <<>>
    /\ bulk_i = 0
    /\ action = <<>>
    /\ requests = <<>>
    /\ printed = {}

NextPorts == ReadFile \/ ReadReturn \/ Inspect \/ Report

SpecPorts == InitPorts /\ [][NextPorts]_vars

(***************************************************************************)
(* The prompt alone, from the end of a report on one to three files        *)
(***************************************************************************)
InitPrompt ==
    /\ root_path = <<".">>
    /\ max_depth = 2
    /\ exclude_patterns = <<>>
    /\ \E n \in 1..3 :
         /\ compose_dirs = { ThreeDirs[k] : k \in 1..n }
         /\ docker_compose_files = [k \in 1..n |-> ComposePath(root_path, ThreeDirs[k])]
         /\ read_i = n
    /\ unreadable = {}
    /\ contents = [f \in { ComposePath(root_path, d) : d \in compose_dirs } |->
                      DocNoServices]
    /\ runtime = "up"
    /\ pc = "select"
    /\ walk_stack = <<>>
    /\ compose_ports = EmptyMap
    /\ running_ports = EmptyMap
    /\ unused_report = EmptyMap
    /\ choice = <<>>
    /\ file_path = <<>>
    /\ bulk_i = 0
    /\ action = <<>>
    /\ requests = <<>>
    /\ printed = {Line("running_none", <<>>)}

NextPrompt == Select \/ FileAction \/ BulkAction \/ BulkStep

SpecPrompt == InitPrompt /\ [][NextPrompt]_vars

(***************************************************************************)
(* A whole run of list_ports                                               *)
(***************************************************************************)
\* the documents a whole run draws from
RunDocs ==
    { DocFail("malformed"), DocNoServices,
      Doc(<<Service("web", <<Str(T80to80), Str(P90)>>)>>),
      Doc(<<Service("web", <<Str(P90)>>), Service("db", <<Num(T53)>>)>>) }

\* list_ports() with the defaults of its signature
Init ==
    /\ root_path = <<".">>
    /\ max_depth = 2
    /\ exclude_patterns = <<>>
    /\ compose_dirs \in { {}, {<<NameA>>}, {<<>>, <<NameA>>} }
    /\ unreadable \in { {}, {<<NameA>>} }
    /\ contents \in [{ ComposePath(root_path, d) : d \in compose_dirs } -> RunDocs]
    /\ runtime \in {"up", "down"}
    /\ Fresh

Next ==
    \/ WalkStep
    \/ FindReturn
    \/ ReadFile
    \/ ReadReturn
    \/ Inspect
    \/ Report
    \/ Select
    \/ FileAction
    \/ BulkAction
    \/ BulkStep

Spec == Init /\ [][Next]_vars

(***************************************************************************)
(* Properties                                                              *)
(***************************************************************************)
Verbs == { Start, Stop, Restart }

\* d and the directories above it
UpTo(d) == { SubSeq(d, 1, k) : k \in 0..Len(d) }

\* the walk can reach d: no directory from the root down to d is unreadable
\* or matched by an exclusion pattern
Reachable(d) ==
    \A e \in UpTo(d) :
        /\ e \notin unreadable
        /\ ~Excluded(exclude_patterns, DirPath(root_path, e))

Found == Range(docker_compose_files)

RECURSIVE Without(_, _)
\* seq with the members of set taken out
Without(seq, set) ==
    IF seq = <<>> THEN <<>>
    ELSE (IF Head(seq) \in set THEN <<>> ELSE <<Head(seq)>>) \o Without(Tail(seq), set)

RECURSIVE IsSubsequence(_, _)
IsSubsequence(a, b) ==
    IF a = <<>> THEN TRUE
    ELSE IF b = <<>> THEN FALSE
    ELSE IF Head(a) = Head(b) THEN IsSubsequence(Tail(a), Tail(b))
    ELSE IsSubsequence(a, Tail(b))

\* every host port some running container binds
AllBound == { p \in {P80, P90, P70, P070, T53} :
                 \E c \in DOMAIN running_ports :
                     \E k \in 1..Len(running_ports[c]) : running_ports[c][k] = p }

\* C1: once the report is made, the unused ports of every file and service
\* are the declared ports without those some running container binds, order
\* and duplicates kept: a subsequence of the declared ports, and all of them
\* when no container runs.
C1_UnusedIsDeclaredMinusBound ==
    pc = "select" =>
        \A e \in Pairs(compose_ports) :
            LET declared == compose_ports[e[1]][e[2]]
                result == unused_report[e[1]][e[2]]
            IN /\ DOMAIN unused_report = DOMAIN compose_ports
               /\ DOMAIN unused_report[e[1]] = DOMAIN compose_ports[e[1]]
               /\ result = Without(declared, AllBound)
               /\ IsSubsequence(result, declared)
               /\ DOMAIN running_ports = {} => result = declared

C1_Witness ==
    /\ pc = "select"
    /\ \E e \in Pairs(compose_ports) :
           /\ Len(unused_report[e[1]][e[2]]) = 2
           /\ Len(compose_ports[e[1]][e[2]]) = 3
           /\ unused_report[e[1]][e[2]][1] = unused_report[e[1]][e[2]][2]

\* C2: after the scan, a compose file directly inside a reachable directory
\* whose depth is exactly max_depth is in the result, and no compose file
\* from further down is.
C2_DirAtMaxDepthIsScanned ==
    pc # "walk" =>
        \A d \in Dirs :
            (Depth(root_path, DirPath(root_path, d)) = max_depth /\ Reachable(d)) =>
                /\ d \in compose_dirs => ComposePath(root_path, d) \in Found
                /\ \A e \in Dirs :
                       (IsUnder(e, d) /\ e # d) => ComposePath(root_path, e) \notin Found

\* C3: no compose file in a directory some exclusion pattern matches, or
\* anywhere below it, is ever in the result.
C3_ExcludedSubtreeNeverReturned ==
    \A d \in Dirs :
        Excluded(exclude_patterns, DirPath(root_path, d)) =>
            \A e \in Dirs : IsUnder(e, d) => ComposePath(root_path, e) \notin Found

C3_Witness ==
    /\ pc # "walk"
    /\ docker_compose_files # <<>>
    /\ unreadable = {}
    /\ \E d \in Dirs, e \in compose_dirs :
           /\ Excluded(exclude_patterns, DirPath(root_path, d))
           /\ IsUnder(e, d)
           /\ ~Excluded(exclude_patterns, DirPath(root_path, e))
           /\ Depth(root_path, DirPath(root_path, e)) < max_depth

\* the selection is the quit token, the bulk token or a number from 1 to the
\* number of files
Recognised(c) ==
    \/ c \in { <<"0">>, <<>> }
    \/ Lower(c) = <<"a">>
    \/ /\ ~ParseInt(c).raised
       /\ ParseInt(c).value \in 1..Len(docker_compose_files)

\* C4: a selection that is none of the quit token, the bulk token and a
\* number from 1 to the number of files selects no file, requests nothing
\* and leaves the prompt at the selection.
C4_BadSelectionReprompts ==
    [][(pc = "select" /\ ~Recognised(choice')) =>
           (pc' = "select" /\ file_path' = file_path /\ requests' = <<>>)]_vars

\* C5 as stated: an action that is not start, stop or restart keeps the
\* selection and leaves the prompt at the action.
C5_BadActionKeepsSelection ==
    [][(pc \in {"file_action", "bulk_action"} /\ action' \notin Verbs) =>
           (pc' = pc /\ choice' = choice /\ file_path' = file_path)]_vars

\* C5 amended: an action that is not start, stop or restart executes
\* nothing, is reported as invalid, and sends the prompt back to the
\* selection of a file; an action is asked for again only after a new
\* selection.
C5_BadActionBackToSelection ==
    [][/\ (pc \in {"file_action", "bulk_action"} /\ action' \notin Verbs) =>
              /\ pc' = "select"
              /\ requests' = <<>>
              /\ printed' = {Line("invalid_action", <<>>)}
       /\ pc' \in {"file_action", "bulk_action"} => pc = "select"]_vars

C5_Witness ==
    /\ pc = "select"
    /\ printed = {Line("invalid_action", <<>>)}
    /\ Lower(choice) = <<"a">>
    /\ action = <<"s", "t", "a", "t", "u", "s">>

\* C6: the quit token or an empty line at the selection prompt ends the
\* prompt, whatever came before, and no command is requested at that input
\* or after it.
C6_QuitExitsWithoutExecution ==
    [][/\ (pc = "select" /\ choice' \in { <<"0">>, <<>> }) =>
              (pc' = "exited" /\ requests' = <<>>)
       /\ pc # "exited"]_vars

C6_Witness ==
    /\ pc = "exited"
    /\ choice = <<>>
    /\ action = Stop
    /\ file_path = docker_compose_files[Len(docker_compose_files)]
    /\ Len(docker_compose_files) = 3

\* C7: in a bulk turn with a valid action the requests made so far are that
\* action on the files in discovery order, one each; the turn ends only when
\* every file has had its request, failed requests included; and a failed
\* request is reported.
C7_BulkRunsEveryFileInOrder ==
    (Lower(choice) = <<"a">> /\ action \in Verbs /\ pc # "bulk_action") =>
        /\ Len(requests) = (IF pc = "bulk_run" THEN bulk_i
                            ELSE Len(docker_compose_files))
        /\ pc = "bulk_run" => bulk_i < Len(docker_compose_files)
        /\ pc \in {"bulk_run", "select"}
        /\ \A k \in 1..Len(requests) :
               /\ requests[k].file = docker_compose_files[k]
               /\ requests[k].command = action
        /\ requests # <<>> =>
               LET last == requests[Len(requests)] IN
               printed = {LineOf(IF last.ok THEN "exec_ok" ELSE "exec_error",
                                 last.file, action)}

C7_Witness ==
    /\ pc = "select"
    /\ Lower(choice) = <<"a">>
    /\ Len(requests) = 3
    /\ ~requests[2].ok
    /\ requests[3].ok

\* C8: when the container runtime does not answer, the run never gets past
\* the call that asks it: no running-port map, no report, no prompt.
C8_RuntimeDownStopsTheRun ==
    runtime = "down" =>
        /\ pc \in {"walk", "done", "read", "inspect", "raised"}
        /\ running_ports = NoValue
        /\ unused_report = NoValue
        /\ choice = <<>> /\ requests = <<>>

C8_Witness ==
    /\ runtime = "down"
    /\ pc = "raised"
    /\ DOMAIN compose_ports # {}

\* the part of text before its first ":"
HostSegment(text) ==
    IF \E k \in 1..Len(text) : text[k] = ":"
    THEN SubSeq(text, 1, (CHOOSE k \in 1..Len(text) :
                              text[k] = ":" /\ \A m \in 1..(k - 1) : text[m] # ":") - 1)
    ELSE text

\* the document cannot be read as a compose file
DocFails(doc) ==
    \/ doc.kind # "map"
    \/ doc.services_key = "null"
    \/ \E k \in 1..Len(doc.services) :
           \/ doc.services[k].data = "null"
           \/ \E m \in 1..Len(doc.services[k].ports) : doc.services[k].ports[m].int

\* the entry a readable document stands for: its services that have ports,
\* each with the host segments of its ports
DocEntry(doc) ==
    LET with == { k \in 1..Len(doc.services) : doc.services[k].has_ports } IN
    [sv \in { doc.services[k].name : k \in with } |->
        LET k == CHOOSE j \in with : doc.services[j].name = sv IN
        [m \in 1..Len(doc.services[k].ports) |->
            HostSegment(doc.services[k].ports[m].text)]]

\* C9: every file is read; a file that fails has no entry in the index, and
\* the entry of any other file is what its own document stands for, wherever
\* the failing files are in the list.
C9_FailingFileLeavesOthersAlone ==
    /\ pc # "read" => read_i = Len(docker_compose_files)
    /\ DOMAIN compose_ports \subseteq { docker_compose_files[k] : k \in 1..read_i }
    /\ \A k \in 1..read_i :
           LET f == docker_compose_files[k] IN
           IF DocFails(contents[f]) \/ DOMAIN DocEntry(contents[f]) = {}
           THEN f \notin DOMAIN compose_ports
           ELSE f \in DOMAIN compose_ports /\ compose_ports[f] = DocEntry(contents[f])

C9_Witness ==
    /\ pc = "inspect"
    /\ contents[docker_compose_files[1]].kind = "malformed"
    /\ contents[docker_compose_files[2]] =
           Doc(<<Service("web", <<Str(P90)>>), Service("db", <<Num(T53)>>)>>)
    /\ DOMAIN compose_ports = {docker_compose_files[3]}

\* the step about to be taken meets a directory that cannot be listed
DirReadFails ==
    pc = "walk" /\ walk_stack # <<>> /\ Head(walk_stack) \in unreadable

\* the step about to be taken reads a compose file with the given property
ReadsDoc(P(_)) ==
    /\ pc = "read"
    /\ read_i < Len(docker_compose_files)
    /\ P(contents[docker_compose_files[read_i + 1]])

NoServicesKey(doc) == doc.kind = "map" /\ doc.services_key = "absent"

\* the step taken made a request that failed
ExecutionFailed ==
    /\ requests' # requests
    /\ requests' # <<>>
    /\ ~requests'[Len(requests')].ok

====
